---- MODULE Spec2Model ----
(***************************************************************************)
(* Model of server.js: the HTTP-to-WhatsApp bridge.                        *)
(*                                                                         *)
(* The process is a single-threaded event loop.  Each action below is one  *)
(* run-to-completion slice of the program: a handler from its entry (or    *)
(* from the resumption of an await) up to its next await or its return.    *)
(* The messaging client (whatsapp-web.js) and the webhook endpoint are     *)
(* outside the repository: their answers (a state, a message id, a raised  *)
(* error, the moment an event is emitted) are nondeterministic inputs.     *)
(* Timers are kept without their delays: a pending timer may fire at any   *)
(* later turn of the loop.                                                 *)
(***************************************************************************)
EXTENDS Naturals, Sequences, FiniteSets, Bags

VARIABLES
    isInitializing,   \* server.js:33
    isRestarting,     \* server.js:34
    cachedState,      \* server.js:35
    webhookUrl,       \* server.js:11, TRUE iff BASE_WEBHOOK_URL is set
    main,             \* position of the main script: "boot" before line 250
    req,              \* the HTTP requests being handled: a bag of request records
    timers,           \* pending setTimeout callbacks, counted per reason
    hooks,            \* webhook posts awaiting their answer, counted per event
    initsInFlight,    \* client.initialize() invocations since the flag was last set
    last              \* the slice the event loop ran last

vars == <<isInitializing, isRestarting, cachedState, webhookUrl, main, req,
          timers, hooks, initsInFlight, last>>

----------------------------------------------------------------------------
(* Bounds *)

MaxReq == 2      \* HTTP requests handled at the same time
MaxHooks == 2    \* webhook posts awaiting their answer at the same time

----------------------------------------------------------------------------
(* Values *)

Undefined == "undefined"

API_KEY == "secret"
ApiKeys == {API_KEY, "wrong", Undefined}

ChatIds == {"1234567890@c.us", Undefined}
Contents == {"hi", "", Undefined}
MsgIds == {"ABCD", "EFGH"}

\* What client.getState() may resolve to: a library state, nothing, or an
\* empty string.
LiveStates == {"CONNECTED", "DISCONNECTED", Undefined, ""}

Events == {"qr", "ready", "authenticated", "auth_failure", "disconnected"}
Reasons == {"logout", "logout_destroy", "restart"}

\* The errors the collaborator raises, told apart by the operation.
GetStateError == [name |-> "Error", message |-> "getState failed"]
SendError == [name |-> "Error", message |-> "sendMessage failed"]
LogoutError == [name |-> "Error", message |-> "logout failed"]
DestroyError == [name |-> "Error", message |-> "destroy failed"]
NoError == [name |-> "", message |-> ""]

\* JavaScript truthiness of the values used here: !v
Falsy(v) == v \in {Undefined, ""}

\* error.toString()
ErrorToString(e) == e.name \o ": " \o e.message

----------------------------------------------------------------------------
(* Requests and responses *)

NoResponse ==
    [status |-> 0, success |-> FALSE, error |-> Undefined,
     message |-> Undefined, id |-> Undefined, state |-> Undefined]

\* res.status(code).json({success, error})
JsonError(code, err) ==
    [status |-> code, success |-> FALSE, error |-> err,
     message |-> Undefined, id |-> Undefined, state |-> Undefined]

\* res.status(code).json({success: true, message})
JsonMessage(code, msg) ==
    [status |-> code, success |-> TRUE, error |-> Undefined,
     message |-> msg, id |-> Undefined, state |-> Undefined]

\* A request: its inputs (apiKey, chatId, content), the handler's locals
\* (`state` of server.js:149 and 180, `response` of server.js:166 by its id,
\* `error` of the catch clauses), its position `pc` and its answer `res`.
\* `read` keeps the cache as the send handler read it at server.js:149 and
\* `calls` the collaborator operations the handler has invoked, in order.
BlankReq ==
    [route |-> "none", pc |-> "enter", apiKey |-> Undefined,
     chatId |-> Undefined, content |-> Undefined,
     read |-> Undefined, state |-> Undefined, response |-> Undefined,
     error |-> NoError, calls |-> <<>>, res |-> NoResponse]

\* A request as it enters its route.
NewReq(route, key, chatId, content) ==
    [BlankReq EXCEPT !.route = route, !.apiKey = key,
                    !.chatId = chatId, !.content = content]

\* The handler returned or ran to its end after answering with `res`.
Respond(q, res) == [q EXCEPT !.pc = "done", !.res = res]

\* The handler invoked collaborator operation `op` and awaits it at `pc`.
Await(q, op, pc) == [q EXCEPT !.pc = pc, !.calls = Append(@, op)]

\* A request stays in the bag while its handler awaits; once answered it is over.
Suspended(q) == IF q.pc = "done" THEN EmptyBag ELSE SetToBag({q})

\* The bag of requests after a new request ran its first slice and became `q`.
Accept(q) == req (+) Suspended(q)

\* The bag of requests after request `q` ran a slice and became `p`.
Resume(q, p) == (req (-) SetToBag({q})) (+) Suspended(p)

\* The slice the loop ran last: `op` is "startup", "timer", "event",
\* "webhook" or "http"; `arg` the timer's reason, the event or the route;
\* `log` what safeInitialize logged, or how the awaited call ended; `req`
\* the request as an http slice left it, with its answer if it gave one.
\* `after` is kept for a timer callback that follows a lifecycle handler at
\* once: the event handled.
Step(op, arg, log) ==
    [op |-> op, arg |-> arg, log |-> log, req |-> BlankReq, after |-> "-"]

\* The event whose handler was the slice before this one, if it was one.
After == IF last.op = "event" THEN last.arg ELSE "-"

HttpStep(log, q) ==
    [op |-> "http", arg |-> q.route, log |-> log, req |-> q, after |-> "-"]

----------------------------------------------------------------------------
(* checkApiKey, server.js:22-28: TRUE iff next() is called *)

\* checkApiKey comparing only a header that is present
CheckApiKeyLax(key) == key = API_KEY \/ key = Undefined

CheckApiKey(key) == key = API_KEY

Unauthorized == JsonError(401, "Unauthorized")

----------------------------------------------------------------------------
(* safeInitialize, server.js:37-51.  `threw` is whether client.initialize() *)
(* raises synchronously.  The results are the new values of the flag, the  *)
(* cache and the count of initialize invocations, and what was logged.     *)

\* safeInitialize without its check of the flag at server.js:38-41
SafeInitializeUnguarded(threw) ==
    IF threw
    THEN [flag |-> FALSE, cache |-> "INITIALIZING",
          inits |-> 0, log |-> "threw"]
    ELSE [flag |-> TRUE, cache |-> "INITIALIZING",
          inits |-> initsInFlight + 1, log |-> "invoked"]

SafeInitialize(threw) ==
    IF isInitializing
    THEN [flag |-> isInitializing, cache |-> cachedState,
          inits |-> initsInFlight, log |-> "skipped"]
    ELSE IF threw
    THEN [flag |-> FALSE, cache |-> "INITIALIZING",
          inits |-> 0, log |-> "threw"]
    ELSE [flag |-> TRUE, cache |-> "INITIALIZING",
          inits |-> initsInFlight + 1, log |-> "invoked"]

\* Start Client, server.js:249-250, then app.listen, server.js:253
Startup(threw) ==
    /\ main = "boot"
    /\ LET r == SafeInitialize(threw) IN
        /\ isInitializing' = r.flag
        /\ cachedState' = r.cache
        /\ initsInFlight' = r.inits
        /\ last' = Step("startup", "startup", r.log)
    /\ main' = "listening"
    /\ UNCHANGED <<isRestarting, webhookUrl, req, timers, hooks>>

\* The setTimeout callbacks, server.js:199-202, 209-212, 231-235
TimerFire(reason, threw) ==
    /\ timers[reason] > 0
    /\ timers' = [timers EXCEPT ![reason] = @ - 1]
    /\ LET r == SafeInitialize(threw) IN
        /\ isInitializing' = r.flag
        /\ cachedState' = r.cache
        /\ initsInFlight' = r.inits
        /\ last' = [Step("timer", reason, r.log) EXCEPT !.after = After]
    /\ isRestarting' = FALSE
    /\ UNCHANGED <<webhookUrl, main, req, hooks>>

\* client.initialize() is invoked at server.js:46 without await and without a
\* rejection handler: when the promise it returned rejects, no code of the
\* program runs.  (The process is taken to survive the unhandled rejection,
\* as it does with --unhandled-rejections=warn; where the runtime ends the
\* process instead, a new process starts again from Init.)
InitializeRejected ==
    /\ initsInFlight > 0
    /\ last' = Step("initialize", "-", "rejected")
    /\ UNCHANGED <<isInitializing, isRestarting, cachedState, webhookUrl, main,
                   req, timers, hooks, initsInFlight>>

----------------------------------------------------------------------------
(* sendWebhook, server.js:72-86 *)

HooksTotal == hooks["qr"] + hooks["ready"] + hooks["auth_failure"] + hooks["disconnected"]

\* server.js:73-81: the posts in flight after sendWebhook(event, data) is called
SendWebhook(event) ==
    IF ~webhookUrl THEN hooks ELSE [hooks EXCEPT ![event] = @ + 1]

\* server.js:82: the awaited post resolved
WebhookSent(event) ==
    /\ hooks[event] > 0
    /\ hooks' = [hooks EXCEPT ![event] = @ - 1]
    /\ last' = Step("webhook", event, "sent")
    /\ UNCHANGED <<isInitializing, isRestarting, cachedState, webhookUrl, main,
                   req, timers, initsInFlight>>

\* A catch that posts the event again
WebhookCatchRetry(event) == hooks

\* server.js:83-85: the posts in flight after the awaited post raised
WebhookCatch(event) == [hooks EXCEPT ![event] = @ - 1]

WebhookFailed(event) ==
    /\ hooks[event] > 0
    /\ hooks' = WebhookCatch(event)
    /\ last' = Step("webhook", event, "failed")
    /\ UNCHANGED <<isInitializing, isRestarting, cachedState, webhookUrl, main,
                   req, timers, initsInFlight>>

----------------------------------------------------------------------------
(* The lifecycle handlers, server.js:89-133 *)

\* Handlers in which authentication already counts as connected
EventCacheAuthConnects(event) ==
    CASE event = "qr" -> "INITIALIZING"
      [] event \in {"ready", "authenticated"} -> "CONNECTED"
      [] event \in {"auth_failure", "disconnected"} -> "DISCONNECTED"

\* The cache after the handler of `event`
EventCache(event) ==
    CASE event = "qr" -> "INITIALIZING"
      [] event = "ready" -> "CONNECTED"
      [] event = "authenticated" -> cachedState
      [] event = "auth_failure" -> "DISCONNECTED"
      [] event = "disconnected" -> "DISCONNECTED"

\* A qr handler that leaves the flag as it is
EventFlagKeptOnQr(event) == IF event = "qr" THEN isInitializing ELSE FALSE

\* The flag after the handler of `event`: server.js:93, 108, 116, 123, 131
EventFlag(event) == FALSE

\* The posts in flight after the handler of `event`
EventHooks(event) ==
    IF event = "authenticated" THEN hooks ELSE SendWebhook(event)

Lifecycle(event) ==
    /\ main = "listening"
    /\ (webhookUrl /\ event # "authenticated") => HooksTotal < MaxHooks
    /\ cachedState' = EventCache(event)
    /\ isInitializing' = EventFlag(event)
    /\ initsInFlight' = 0
    /\ hooks' = EventHooks(event)
    /\ last' = Step("event", event, "-")
    /\ UNCHANGED <<isRestarting, webhookUrl, main, req, timers>>

----------------------------------------------------------------------------
(* POST /client/sendMessage/:sessionId, server.js:140-175 *)

NotReady(state) ==
    "WhatsApp client not ready. Current state: "
        \o (IF Falsy(state) THEN "INITIALIZING" ELSE state)

\* A refresh that stores whatever the query gave
RefreshCacheOverwrite(state) == state

\* server.js:152 and 181: state || cachedState
RefreshCache(state) == IF Falsy(state) THEN cachedState ELSE state

\* The entry without the shortcut of server.js:150: it always queries
SendEnterAlwaysQuery(q) ==
    IF ~CheckApiKey(q.apiKey) THEN Respond(q, Unauthorized)
    ELSE IF Falsy(q.chatId) \/ Falsy(q.content)
    THEN Respond(q, JsonError(400, "Missing chatId or content"))
    ELSE Await([q EXCEPT !.read = cachedState, !.state = cachedState],
               "getState", "awaitGetState")

\* The entry with server.js:143 testing chatId alone
SendEnterChatIdOnly(q) ==
    IF ~CheckApiKey(q.apiKey) THEN Respond(q, Unauthorized)
    ELSE IF Falsy(q.chatId)
    THEN Respond(q, JsonError(400, "Missing chatId or content"))
    ELSE LET p == [q EXCEPT !.read = cachedState, !.state = cachedState] IN
         IF p.state # "CONNECTED"
         THEN Await(p, "getState", "awaitGetState")
         ELSE Await(p, "sendMessage", "awaitSend")

\* server.js:140-151 (or 166 when the cache says CONNECTED): up to the first await
SendEnter(q) ==
    IF ~CheckApiKey(q.apiKey) THEN Respond(q, Unauthorized)
    ELSE IF Falsy(q.chatId) \/ Falsy(q.content)
    THEN Respond(q, JsonError(400, "Missing chatId or content"))
    ELSE LET p == [q EXCEPT !.read = cachedState, !.state = cachedState] IN
         IF p.state # "CONNECTED"
         THEN Await(p, "getState", "awaitGetState")
         ELSE Await(p, "sendMessage", "awaitSend")

SendMessageArrive(key, chatId, content) ==
    /\ main = "listening"
    /\ LET p == SendEnter(NewReq("send", key, chatId, content)) IN
        /\ p.pc # "done" => BagCardinality(req) < MaxReq
        /\ req' = Accept(p)
        /\ last' = HttpStep("enter", p)
    /\ UNCHANGED <<isInitializing, isRestarting, cachedState, webhookUrl, main,
                   timers, hooks, initsInFlight>>

\* The resumption without the test of server.js:155
SendAfterGetStateUnchecked(q, state) ==
    Await([q EXCEPT !.state = state], "sendMessage", "awaitSend")

\* server.js:151-166: getState resolved to `state`
SendAfterGetState(q, state) ==
    LET p == [q EXCEPT !.state = state] IN
    IF p.state # "CONNECTED"
    THEN Respond(p, JsonError(503, NotReady(p.state)))
    ELSE Await(p, "sendMessage", "awaitSend")

SendGetStateReturn(r, state) ==
    /\ BagIn(r, req)
    /\ r.route = "send"
    /\ r.pc = "awaitGetState"
    /\ cachedState' = RefreshCache(state)
    /\ LET p == SendAfterGetState(r, state) IN
        /\ req' = Resume(r, p)
        /\ last' = HttpStep("resolved", p)
    /\ UNCHANGED <<isInitializing, isRestarting, webhookUrl, main, timers,
                   hooks, initsInFlight>>

\* A catch answering as the not-ready branch of server.js:156 does
SendCatchNotReady(q, error) ==
    Respond([q EXCEPT !.error = error], JsonError(503, NotReady(q.state)))

\* server.js:171-174: the catch of the handler's try
SendCatch(q, error) ==
    Respond([q EXCEPT !.error = error], JsonError(500, ErrorToString(error)))

SendGetStateThrow(r) ==
    /\ BagIn(r, req)
    /\ r.route = "send"
    /\ r.pc = "awaitGetState"
    /\ LET p == SendCatch(r, GetStateError) IN
        /\ req' = Resume(r, p)
        /\ last' = HttpStep("rejected", p)
    /\ UNCHANGED <<isInitializing, isRestarting, cachedState, webhookUrl, main,
                   timers, hooks, initsInFlight>>

\* server.js:166-169: sendMessage resolved to a message with identifier `id`
SendSent(q, id) ==
    LET p == [q EXCEPT !.response = id] IN
    Respond(p, [status |-> 200, success |-> TRUE, error |-> Undefined,
                message |-> Undefined, id |-> p.response, state |-> Undefined])

SendMessageReturn(r, id) ==
    /\ BagIn(r, req)
    /\ r.route = "send"
    /\ r.pc = "awaitSend"
    /\ LET p == SendSent(r, id) IN
        /\ req' = Resume(r, p)
        /\ last' = HttpStep("resolved", p)
    /\ UNCHANGED <<isInitializing, isRestarting, cachedState, webhookUrl, main,
                   timers, hooks, initsInFlight>>

SendMessageThrow(r) ==
    /\ BagIn(r, req)
    /\ r.route = "send"
    /\ r.pc = "awaitSend"
    /\ LET p == SendCatch(r, SendError) IN
        /\ req' = Resume(r, p)
        /\ last' = HttpStep("rejected", p)
    /\ UNCHANGED <<isInitializing, isRestarting, cachedState, webhookUrl, main,
                   timers, hooks, initsInFlight>>

----------------------------------------------------------------------------
(* GET /session/status/:sessionId, server.js:178-186 *)

\* server.js:178-180
StatusEnter(q) ==
    IF ~CheckApiKey(q.apiKey) THEN Respond(q, Unauthorized)
    ELSE Await(q, "getState", "awaitGetState")

StatusArrive(key) ==
    /\ main = "listening"
    /\ LET p == StatusEnter(NewReq("status", key, Undefined, Undefined)) IN
        /\ p.pc # "done" => BagCardinality(req) < MaxReq
        /\ req' = Accept(p)
        /\ last' = HttpStep("enter", p)
    /\ UNCHANGED <<isInitializing, isRestarting, cachedState, webhookUrl, main,
                   timers, hooks, initsInFlight>>

\* server.js:180-182
StatusAnswer(q, state) ==
    LET p == [q EXCEPT !.state = state] IN
    Respond(p, [status |-> 200, success |-> TRUE, error |-> Undefined,
                message |-> Undefined, id |-> Undefined, state |-> p.state])

StatusGetStateReturn(r, state) ==
    /\ BagIn(r, req)
    /\ r.route = "status"
    /\ r.pc = "awaitGetState"
    /\ cachedState' = RefreshCache(state)
    /\ LET p == StatusAnswer(r, state) IN
        /\ req' = Resume(r, p)
        /\ last' = HttpStep("resolved", p)
    /\ UNCHANGED <<isInitializing, isRestarting, webhookUrl, main, timers,
                   hooks, initsInFlight>>

\* A catch answering 500 as the other routes do
StatusCatch500(q, error) ==
    Respond([q EXCEPT !.error = error], JsonError(500, ErrorToString(error)))

\* server.js:183-185: res.json without a status, so HTTP 200
StatusCatch(q, error) ==
    Respond([q EXCEPT !.error = error], JsonError(200, ErrorToString(error)))

StatusGetStateThrow(r) ==
    /\ BagIn(r, req)
    /\ r.route = "status"
    /\ r.pc = "awaitGetState"
    /\ LET p == StatusCatch(r, GetStateError) IN
        /\ req' = Resume(r, p)
        /\ last' = HttpStep("rejected", p)
    /\ UNCHANGED <<isInitializing, isRestarting, cachedState, webhookUrl, main,
                   timers, hooks, initsInFlight>>

----------------------------------------------------------------------------
(* POST /session/logout/:sessionId, server.js:189-219 *)

AlreadyInProgress == JsonMessage(202, "Restart already in progress.")

\* The handlers without their check of the flag at server.js:191 and 224
RestartGuardOff == FALSE

\* server.js:191-193 and 224-226: TRUE iff the request is turned away
RestartGuard == isRestarting

\* server.js:189-196: up to `await client.logout()`
LogoutEnter(q) ==
    IF ~CheckApiKey(q.apiKey) THEN Respond(q, Unauthorized)
    ELSE IF RestartGuard THEN Respond(q, AlreadyInProgress)
    ELSE Await(q, "logout", "awaitLogout")

\* Handlers that go on to the teardown without raising the flag
FlagAfterEnterUnset(q) == isRestarting

\* server.js:194 and 227: the flag after the handler's entry
FlagAfterEnter(q) ==
    IF CheckApiKey(q.apiKey) /\ ~RestartGuard THEN TRUE ELSE isRestarting

LogoutArrive(key) ==
    /\ main = "listening"
    /\ LET q == NewReq("logout", key, Undefined, Undefined)
           p == LogoutEnter(q)
       IN
        /\ p.pc # "done" => BagCardinality(req) < MaxReq
        /\ req' = Accept(p)
        /\ isRestarting' = FlagAfterEnter(q)
        /\ last' = HttpStep("enter", p)
    /\ UNCHANGED <<isInitializing, cachedState, webhookUrl, main, timers,
                   hooks, initsInFlight>>

\* setTimeout(..., delay) with the callback of `reason`
SetTimeout(reason) == [timers EXCEPT ![reason] = @ + 1]

\* server.js:197-203: logout resolved
LogoutReturn(r) ==
    /\ BagIn(r, req)
    /\ r.route = "logout"
    /\ r.pc = "awaitLogout"
    /\ timers' = SetTimeout("logout")
    /\ LET p == Respond(r, JsonMessage(200, "Logged out. New QR code will be generated.")) IN
        /\ req' = Resume(r, p)
        /\ last' = HttpStep("resolved", p)
    /\ UNCHANGED <<isInitializing, isRestarting, cachedState, webhookUrl, main,
                   hooks, initsInFlight>>

\* server.js:204-208: logout raised `error`; up to `await client.destroy()`
LogoutCatch(q, error) == Await([q EXCEPT !.error = error], "destroy", "awaitDestroy")

LogoutThrow(r) ==
    /\ BagIn(r, req)
    /\ r.route = "logout"
    /\ r.pc = "awaitLogout"
    /\ LET p == LogoutCatch(r, LogoutError) IN
        /\ req' = Resume(r, p)
        /\ last' = HttpStep("rejected", p)
    /\ UNCHANGED <<isInitializing, isRestarting, cachedState, webhookUrl, main,
                   timers, hooks, initsInFlight>>

\* server.js:209-213: the fallback destroy resolved
LogoutDestroyReturn(r) ==
    /\ BagIn(r, req)
    /\ r.route = "logout"
    /\ r.pc = "awaitDestroy"
    /\ timers' = SetTimeout("logout_destroy")
    /\ LET p == Respond(r, JsonMessage(200, "Session destroyed. New QR code will be generated.")) IN
        /\ req' = Resume(r, p)
        /\ last' = HttpStep("resolved", p)
    /\ UNCHANGED <<isInitializing, isRestarting, cachedState, webhookUrl, main,
                   hooks, initsInFlight>>

\* Catch clauses that leave the flag set
CatchFlagKept == isRestarting

\* server.js:215 and 238: the flag after a catch clause that gives up
CatchFlag == FALSE

\* An inner catch reporting its own error `e`
LogoutDestroyCatchInner(q, e) == Respond(q, JsonError(500, ErrorToString(e)))

\* server.js:214-217: the fallback destroy raised `e`; `q.error` is the logout's error
LogoutDestroyCatch(q, e) == Respond(q, JsonError(500, ErrorToString(q.error)))

LogoutDestroyThrow(r) ==
    /\ BagIn(r, req)
    /\ r.route = "logout"
    /\ r.pc = "awaitDestroy"
    /\ isRestarting' = CatchFlag
    /\ LET p == LogoutDestroyCatch(r, DestroyError) IN
        /\ req' = Resume(r, p)
        /\ last' = HttpStep("rejected", p)
    /\ UNCHANGED <<isInitializing, cachedState, webhookUrl, main, timers,
                   hooks, initsInFlight>>

----------------------------------------------------------------------------
(* POST /session/restart/:sessionId, server.js:222-242 *)

\* server.js:222-229: up to `await client.destroy()`
RestartEnter(q) ==
    IF ~CheckApiKey(q.apiKey) THEN Respond(q, Unauthorized)
    ELSE IF RestartGuard THEN Respond(q, AlreadyInProgress)
    ELSE Await(q, "destroy", "awaitDestroy")

RestartArrive(key) ==
    /\ main = "listening"
    /\ LET q == NewReq("restart", key, Undefined, Undefined)
           p == RestartEnter(q)
       IN
        /\ p.pc # "done" => BagCardinality(req) < MaxReq
        /\ req' = Accept(p)
        /\ isRestarting' = FlagAfterEnter(q)
        /\ last' = HttpStep("enter", p)
    /\ UNCHANGED <<isInitializing, cachedState, webhookUrl, main, timers,
                   hooks, initsInFlight>>

\* server.js:230-236: destroy resolved
RestartDestroyReturn(r) ==
    /\ BagIn(r, req)
    /\ r.route = "restart"
    /\ r.pc = "awaitDestroy"
    /\ timers' = SetTimeout("restart")
    /\ LET p == Respond(r, JsonMessage(200, "Client restarting. New QR code will appear in logs.")) IN
        /\ req' = Resume(r, p)
        /\ last' = HttpStep("resolved", p)
    /\ UNCHANGED <<isInitializing, isRestarting, cachedState, webhookUrl, main,
                   hooks, initsInFlight>>

\* server.js:237-241: destroy raised `error`
RestartCatch(q, error) == Respond([q EXCEPT !.error = error], JsonError(500, ErrorToString(error)))

RestartDestroyThrow(r) ==
    /\ BagIn(r, req)
    /\ r.route = "restart"
    /\ r.pc = "awaitDestroy"
    /\ isRestarting' = CatchFlag
    /\ LET p == RestartCatch(r, DestroyError) IN
        /\ req' = Resume(r, p)
        /\ last' = HttpStep("rejected", p)
    /\ UNCHANGED <<isInitializing, cachedState, webhookUrl, main, timers,
                   hooks, initsInFlight>>

----------------------------------------------------------------------------
Init ==
    /\ isInitializing = FALSE
    /\ isRestarting = FALSE
    /\ cachedState = "INITIALIZING"
    /\ webhookUrl \in BOOLEAN
    /\ main = "boot"
    /\ req = EmptyBag
    /\ timers = [x \in Reasons |-> 0]
    /\ hooks = [e \in Events \ {"authenticated"} |-> 0]
    /\ initsInFlight = 0
    /\ last = Step("load", "-", "-")

\* The lifecycle, the timers and the webhook posts
Session ==
    \/ \E threw \in BOOLEAN : Startup(threw)
    \/ \E reason \in Reasons, threw \in BOOLEAN : TimerFire(reason, threw)
    \/ InitializeRejected
    \/ \E e \in Events : Lifecycle(e)

Webhooks ==
    \/ \E e \in Events \ {"authenticated"} : WebhookSent(e)
    \/ \E e \in Events \ {"authenticated"} : WebhookFailed(e)

SendRoute ==
    \/ \E key \in ApiKeys, chatId \in ChatIds, content \in Contents :
          SendMessageArrive(key, chatId, content)
    \/ \E r \in BagToSet(req), state \in LiveStates : SendGetStateReturn(r, state)
    \/ \E r \in BagToSet(req) : SendGetStateThrow(r)
    \/ \E r \in BagToSet(req), id \in MsgIds : SendMessageReturn(r, id)
    \/ \E r \in BagToSet(req) : SendMessageThrow(r)

StatusRoute ==
    \/ \E key \in ApiKeys : StatusArrive(key)
    \/ \E r \in BagToSet(req), state \in LiveStates : StatusGetStateReturn(r, state)
    \/ \E r \in BagToSet(req) : StatusGetStateThrow(r)

LogoutRoute ==
    \/ \E key \in ApiKeys : LogoutArrive(key)
    \/ \E r \in BagToSet(req) : LogoutReturn(r)
    \/ \E r \in BagToSet(req) : LogoutThrow(r)
    \/ \E r \in BagToSet(req) : LogoutDestroyReturn(r)
    \/ \E r \in BagToSet(req) : LogoutDestroyThrow(r)

RestartRoute ==
    \/ \E key \in ApiKeys : RestartArrive(key)
    \/ \E r \in BagToSet(req) : RestartDestroyReturn(r)
    \/ \E r \in BagToSet(req) : RestartDestroyThrow(r)

\* The whole program, with or without a webhook URL.
Next ==
    \/ Session
    \/ Webhooks
    \/ SendRoute
    \/ StatusRoute
    \/ LogoutRoute
    \/ RestartRoute

Spec == Init /\ [][Next]_vars

\* The program run without BASE_WEBHOOK_URL: sendWebhook returns at
\* server.js:73 and no post is ever in flight.
InitApi == Init /\ ~webhookUrl

NextApi ==
    \/ Session
    \/ SendRoute
    \/ StatusRoute
    \/ LogoutRoute
    \/ RestartRoute

SpecApi == InitApi /\ [][NextApi]_vars

\* An awaited logout or destroy call returns or raises.
TeardownEnds ==
    \E r \in BagToSet(req) :
        \/ LogoutReturn(r)
        \/ LogoutThrow(r)
        \/ LogoutDestroyReturn(r)
        \/ LogoutDestroyThrow(r)
        \/ RestartDestroyReturn(r)
        \/ RestartDestroyThrow(r)

\* A scheduled timer fires.
TimerFires == \E reason \in Reasons, threw \in BOOLEAN : TimerFire(reason, threw)

\* The session with the routes that tear it down, and the status route as
\* the traffic beside them.
NextTeardown ==
    \/ Session
    \/ StatusRoute
    \/ LogoutRoute
    \/ RestartRoute

\* The same with a collaborator whose logout and destroy calls all end, and
\* an event loop that runs every timer it was given (server.js:199, 209, 231).
SpecTeardownFair ==
    /\ InitApi
    /\ [][NextTeardown]_vars
    /\ WF_vars(TeardownEnds)
    /\ WF_vars(TimerFires)

\* The webhook notifier with the lifecycle around it: either configuration,
\* the callers restricted to the status and restart routes.
NextWebhook ==
    \/ Session
    \/ Webhooks
    \/ StatusRoute
    \/ RestartRoute

SpecWebhook == Init /\ [][NextWebhook]_vars

----------------------------------------------------------------------------
(* What the properties below speak of *)

\* The requests in sight: those awaiting, and the one the last slice handled.
Reqs == BagToSet(req) \cup {last.req}

TimersTotal == timers["logout"] + timers["logout_destroy"] + timers["restart"]

\* The collaborator operation `op` is among those request q has invoked.
Called(q, op) == \E i \in 1..Len(q.calls) : q.calls[i] = op

Authorized(q) == q.apiKey = "secret"

\* This step took in a new request, which its first slice left as q.
Arrived(q) ==
    /\ last'.op = "http"
    /\ last'.log = "enter"
    /\ last'.req = q

\* This step resumed the awaiting request q, which the slice left as p.
Moved(q, p) ==
    /\ last'.op = "http"
    /\ last'.log \in {"resolved", "rejected"}
    /\ last'.req = p
    /\ BagIn(q, req)
    /\ CopiesIn(q, req') = CopiesIn(q, req) - 1

\* The logout and destroy calls that have not yet resolved or raised.
PendingTeardowns ==
    BagCardinality([q \in {x \in BagToSet(req) : x.pc \in {"awaitLogout", "awaitDestroy"}} |-> req[q]])

----------------------------------------------------------------------------
(* C1: a safeInitialize call made while isInitializing is true (from a     *)
(* logout or restart timer; at startup the flag is still false) invokes no *)
(* initialize and leaves the flag and the cache as they were; so while the *)
(* flag is true exactly one initialize has been invoked since it was set.  *)

C1_SkippedIsNoOp ==
    (last'.op \in {"startup", "timer"} /\ isInitializing)
        => /\ last'.log = "skipped"
           /\ isInitializing' = TRUE
           /\ cachedState' = cachedState
           /\ initsInFlight' = initsInFlight

\* C1: one initialize per setting of the flag, and a call made while it is set is a no-op.
C1_InitializationGuard ==
    /\ [](isInitializing => initsInFlight = 1)
    /\ [][C1_SkippedIsNoOp]_vars

\* A restart timer found the flag set and the cache CONNECTED, and skipped.
C1_Witness ==
    /\ last = Step("timer", "restart", "skipped")
    /\ isInitializing
    /\ initsInFlight = 1
    /\ cachedState = "CONNECTED"

----------------------------------------------------------------------------
(* C2: while isRestarting is true, every authorized logout or restart      *)
(* request is answered 202 'Restart already in progress.' in its first     *)
(* slice, invokes nothing on the collaborator, sets no timer and leaves    *)
(* the flag set; the flag is true exactly while one teardown call is       *)
(* pending or one re-initialization timer is set, and there is never more  *)
(* than one of them: logout and restart share the flag.                    *)

C2_Rejected ==
    \A q \in {last'.req} :
        (Arrived(q) /\ q.route \in {"logout", "restart"} /\ Authorized(q) /\ isRestarting)
            => /\ q.pc = "done"
               /\ q.res.status = 202
               /\ q.res.success = TRUE
               /\ q.res.message = "Restart already in progress."
               /\ q.calls = <<>>
               /\ timers' = timers
               /\ isRestarting' = TRUE

\* C2: at most one teardown or timer, exactly while the flag is set; later requests get 202.
C2_MutualExclusion ==
    /\ [](PendingTeardowns + TimersTotal <= 1)
    /\ [](isRestarting <=> (PendingTeardowns + TimersTotal = 1))
    /\ [][C2_Rejected]_vars

\* A logout arrived in the delay window of a restart and was turned away.
C2_Witness ==
    /\ timers["restart"] = 1
    /\ isRestarting
    /\ \E q \in Reqs : /\ q.route = "logout"
                       /\ q.res.status = 202
                       /\ q.calls = <<>>

----------------------------------------------------------------------------
(* The send requests that pass checkApiKey and the test of server.js:143 *)

WellFormed(q) ==
    /\ q.route = "send"
    /\ Authorized(q)
    /\ q.chatId \notin {"undefined", ""}
    /\ q.content \notin {"undefined", ""}

\* The handler of such a request reads the cache as it is when it arrives.
ReadsCache ==
    \A q \in {last'.req} : (Arrived(q) /\ WellFormed(q)) => q.read = cachedState

----------------------------------------------------------------------------
(* C3, as claimed: an authorized, well-formed send request handled while   *)
(* the cached state is DISCONNECTED or INITIALIZING never invokes the      *)
(* collaborator's send operation and is answered 503.                      *)

C3_AsClaimed ==
    \A q \in Reqs :
        (WellFormed(q) /\ q.read \in {"DISCONNECTED", "INITIALIZING"})
            => /\ ~Called(q, "sendMessage")
               /\ q.pc = "done" => q.res.status = 503

(* C3, amended: such a request first queries the collaborator's state; it  *)
(* is answered 503, naming the state found (INITIALIZING when none), and   *)
(* the send operation is not invoked, when the query resolves to anything  *)
(* but CONNECTED; the send operation is invoked when, and only when, the   *)
(* query resolved to CONNECTED; a call that raises is answered 500.        *)

C3_Answered ==
    \A q \in Reqs :
        (WellFormed(q) /\ q.read \in {"DISCONNECTED", "INITIALIZING"})
            => /\ Len(q.calls) >= 1 /\ q.calls[1] = "getState"
               /\ q.state # "CONNECTED" => ~Called(q, "sendMessage")
               /\ q.state = "CONNECTED" => q.calls = <<"getState", "sendMessage">>
               /\ (q.pc = "done" /\ q.res.status = 503) => ~Called(q, "sendMessage")
               /\ (q = last.req /\ last.log = "rejected") => q.res.status = 500
               /\ (q = last.req /\ last.log = "resolved" /\ q.state # "CONNECTED")
                    => /\ q.pc = "done"
                       /\ q.res.status = 503
                       /\ q.res.success = FALSE
                       /\ q.res.error = "WhatsApp client not ready. Current state: "
                              \o (IF q.state \in {"undefined", ""} THEN "INITIALIZING"
                                  ELSE q.state)

\* C3, amended: 503 and no send exactly when the live query resolves to other than CONNECTED.
C3_NotReady ==
    /\ []C3_Answered
    /\ [][ReadsCache]_vars

\* The cache said DISCONNECTED, the query found nothing: 503 naming INITIALIZING.
C3_Witness ==
    /\ WellFormed(last.req)
    /\ last.req.read = "DISCONNECTED"
    /\ last.req.state = "undefined"
    /\ last.req.calls = <<"getState">>
    /\ last.req.res.status = 503
    /\ last.req.res.error = "WhatsApp client not ready. Current state: INITIALIZING"

----------------------------------------------------------------------------
(* C4: an authorized, well-formed send request that arrives while the      *)
(* cached state is CONNECTED makes no getState query and invokes the       *)
(* collaborator's sendMessage exactly once; when that call resolves the    *)
(* answer is 200 {success: true, id} with the id of the message it         *)
(* resolved to.                                                            *)

C4_NoQuery ==
    \A q \in {last'.req} :
        (Arrived(q) /\ WellFormed(q) /\ cachedState = "CONNECTED")
            => /\ q.read = "CONNECTED"
               /\ q.pc = "awaitSend"
               /\ q.calls = <<"sendMessage">>

C4_Delegated ==
    \A q \in Reqs :
        (WellFormed(q) /\ q.read = "CONNECTED")
            => /\ q.calls = <<"sendMessage">>
               /\ (q = last.req /\ last.log = "resolved")
                    => /\ q.pc = "done"
                       /\ q.res.status = 200
                       /\ q.res.success = TRUE
                       /\ q.res.id = q.response
                       /\ q.res.id \in MsgIds

\* C4: cache CONNECTED, so no getState, one sendMessage, 200 with the id it resolved to.
C4_ConnectedSend ==
    /\ []C4_Delegated
    /\ [][C4_NoQuery]_vars

\* The example of the specification: cache CONNECTED, the collaborator returns ABCD.
C4_Witness ==
    /\ WellFormed(last.req)
    /\ last.req.read = "CONNECTED"
    /\ last.req.calls = <<"sendMessage">>
    /\ last.req.res.status = 200
    /\ last.req.res.id = "ABCD"

----------------------------------------------------------------------------
(* C5: a request to any of the four protected routes whose x-api-key is    *)
(* not the secret (absent included) is answered 401 Unauthorized in its    *)
(* first slice: it invokes nothing on the collaborator, never awaits, and  *)
(* leaves cachedState, both flags and the timers as they were.             *)

C5_Answer401 ==
    \A q \in Reqs :
        (q.route \in {"send", "status", "logout", "restart"} /\ q.apiKey # "secret")
            => /\ q.pc = "done"
               /\ q.res.status = 401
               /\ q.res.success = FALSE
               /\ q.res.error = "Unauthorized"
               /\ q.calls = <<>>

C5_NoEffect ==
    \A q \in {last'.req} :
        (Arrived(q) /\ q.apiKey # "secret")
            => UNCHANGED <<cachedState, isInitializing, isRestarting, timers, req>>

\* C5: a wrong or absent key is answered 401 with no call and no change of state.
C5_Unauthorized ==
    /\ []C5_Answer401
    /\ [][C5_NoEffect]_vars

\* A restart without the header, while no restart is under way: 401, nothing torn down.
C5_Witness ==
    /\ last.req.route = "restart"
    /\ last.req.apiKey = "undefined"
    /\ last.req.res.status = 401
    /\ ~isRestarting
    /\ TimersTotal = 0
    /\ PendingTeardowns = 0

----------------------------------------------------------------------------
(* C6: a send request that reaches the handler without chatId or without   *)
(* content (an empty body included) is answered 400 'Missing chatId or     *)
(* content'; no send request missing either field invokes getState or      *)
(* sendMessage or changes the cached state, whatever that state is.        *)

C6_Missing(q) ==
    /\ q.route = "send"
    /\ q.chatId \in {"undefined", ""} \/ q.content \in {"undefined", ""}

C6_Answer400 ==
    \A q \in Reqs :
        C6_Missing(q)
            => /\ q.pc = "done"
               /\ q.calls = <<>>
               /\ Authorized(q)
                    => /\ q.res.status = 400
                       /\ q.res.success = FALSE
                       /\ q.res.error = "Missing chatId or content"

C6_CacheKept ==
    \A q \in {last'.req} :
        (Arrived(q) /\ C6_Missing(q)) => cachedState' = cachedState

\* C6: a missing chatId or content is answered 400 with no call and the cache kept.
C6_BadRequest ==
    /\ []C6_Answer400
    /\ [][C6_CacheKept]_vars

\* An empty body while the cache says CONNECTED: 400 and no call.
C6_Witness ==
    /\ last.req.route = "send"
    /\ Authorized(last.req)
    /\ last.req.chatId = "undefined"
    /\ last.req.content = "undefined"
    /\ last.req.res.status = 400
    /\ last.req.calls = <<>>
    /\ cachedState = "CONNECTED"

----------------------------------------------------------------------------
(* C7: when the logout call of an accepted logout raises, the handler      *)
(* invokes destroy.  If destroy raises too, isRestarting becomes false, no *)
(* timer is set and the answer is 500 with the logout's error, not         *)
(* destroy's.  If destroy resolves, the logout_destroy timer is set, the   *)
(* flag stays true and the answer reports success.                         *)

C7_Step(q, p) ==
    /\ (q.pc = "awaitLogout" /\ last'.log = "rejected")
         => /\ p.pc = "awaitDestroy"
            /\ p.calls = <<"logout", "destroy">>
            /\ isRestarting' = TRUE
            /\ timers' = timers
    /\ (q.pc = "awaitDestroy" /\ last'.log = "rejected")
         => /\ isRestarting' = FALSE
            /\ timers' = timers
            /\ TimersTotal = 0
            /\ p.pc = "done"
            /\ p.res.status = 500
            /\ p.res.success = FALSE
            /\ p.res.error = "Error: logout failed"
    /\ (q.pc = "awaitDestroy" /\ last'.log = "resolved")
         => /\ isRestarting' = TRUE
            /\ timers' = [timers EXCEPT !["logout_destroy"] = @ + 1]
            /\ p.pc = "done"
            /\ p.res.status = 200
            /\ p.res.success = TRUE
            /\ p.res.message = "Session destroyed. New QR code will be generated."

\* C7: logout raised, so destroy; both raised, so flag down, no timer, 500 with the logout's error.
C7_LogoutFallback ==
    [][\A q \in BagToSet(req) : \A p \in {last'.req} :
          (Moved(q, p) /\ q.route = "logout") => C7_Step(q, p)]_vars

\* Logout and destroy both raised: 500 with the logout's error, flag down, no timer.
C7_Witness ==
    /\ last.op = "http" /\ last.arg = "logout" /\ last.log = "rejected"
    /\ last.req.calls = <<"logout", "destroy">>
    /\ last.req.res.status = 500
    /\ last.req.res.error = "Error: logout failed"
    /\ ~isRestarting
    /\ TimersTotal = 0

----------------------------------------------------------------------------
(* C8: every authorized status request queries the collaborator's state,   *)
(* whatever the cache says, and is answered with HTTP 200.  When the query *)
(* resolves, the answer is {success: true, state} with the state found and *)
(* the cache takes that state (it is kept when nothing was found); when    *)
(* the query raises, the answer is {success: false, error} and cachedState *)
(* and both flags stay as they were.                                       *)

C8_Queries ==
    \A q \in Reqs :
        (q.route = "status" /\ Authorized(q))
            => /\ q.calls = <<"getState">>
               /\ q.pc \in {"awaitGetState", "done"}
               /\ q.pc = "done" => q.res.status = 200

C8_Step(q, p) ==
    /\ p.pc = "done"
    /\ p.calls = <<"getState">>
    /\ UNCHANGED <<isInitializing, isRestarting>>
    /\ last'.log = "resolved"
         => /\ p.res.status = 200
            /\ p.res.success = TRUE
            /\ p.res.state = p.state
            /\ p.state \in LiveStates
            /\ cachedState' = IF p.state \in {"undefined", ""} THEN cachedState
                                          ELSE p.state
    /\ last'.log = "rejected"
         => /\ p.res.status = 200
            /\ p.res.success = FALSE
            /\ p.res.error = "Error: getState failed"
            /\ cachedState' = cachedState

\* C8: status always queries and always answers HTTP 200, with the state or the error.
C8_StatusQuery ==
    /\ []C8_Queries
    /\ [][\A q \in BagToSet(req) : \A p \in {last'.req} :
            (Moved(q, p) /\ q.route = "status") => C8_Step(q, p)]_vars

\* The query raised while the cache said CONNECTED: HTTP 200, success false.
C8_Witness ==
    /\ last.op = "http" /\ last.arg = "status" /\ last.log = "rejected"
    /\ last.req.calls = <<"getState">>
    /\ last.req.res.status = 200
    /\ last.req.res.success = FALSE
    /\ last.req.res.error = "Error: getState failed"
    /\ cachedState = "CONNECTED"

----------------------------------------------------------------------------
(* C9: when getState or sendMessage raises during a send request, the      *)
(* answer is 500 with the error's string; after a raising getState the     *)
(* answer is not 503, sendMessage is not invoked and the cached state is   *)
(* as it was.                                                              *)

C9_Step(q, p) ==
    /\ p.pc = "done"
    /\ p.res.status = 500
    /\ p.res.success = FALSE
    /\ p.calls = q.calls
    /\ cachedState' = cachedState
    /\ q.pc = "awaitGetState"
         => /\ p.res.error = "Error: getState failed"
            /\ p.calls = <<"getState">>
    /\ q.pc = "awaitSend" => p.res.error = "Error: sendMessage failed"

\* C9: a raising getState or sendMessage is answered 500 with the error's string, cache kept.
C9_SendErrors ==
    [][\A q \in BagToSet(req) : \A p \in {last'.req} :
          (Moved(q, p) /\ q.route = "send" /\ last'.log = "rejected") => C9_Step(q, p)]_vars

\* The live query of a send raised: 500, no sendMessage, cache still DISCONNECTED.
C9_Witness ==
    /\ last.op = "http" /\ last.arg = "send" /\ last.log = "rejected"
    /\ last.req.read = "DISCONNECTED"
    /\ last.req.calls = <<"getState">>
    /\ last.req.res.status = 500
    /\ last.req.res.error = "Error: getState failed"
    /\ cachedState = "DISCONNECTED"

----------------------------------------------------------------------------
(* C10: a lifecycle handler sets cachedState and clears isInitializing in  *)
(* the slice that issues the webhook post, the same way with or without a *)
(* webhook URL; the settling of a post, sent or failed, changes neither    *)
(* the cache nor the flags and takes that one post out of flight without   *)
(* issuing another; without a URL no post is ever in flight.               *)

C10_Handler ==
    last'.op = "event"
        => /\ isInitializing' = FALSE
           /\ cachedState' = CASE last'.arg = "qr" -> "INITIALIZING"
                               [] last'.arg = "ready" -> "CONNECTED"
                               [] last'.arg = "authenticated" -> cachedState
                               [] last'.arg \in {"auth_failure", "disconnected"} -> "DISCONNECTED"
           /\ isRestarting' = isRestarting
           /\ hooks' = IF webhookUrl /\ last'.arg # "authenticated"
                       THEN [hooks EXCEPT ![last'.arg] = @ + 1]
                       ELSE hooks

C10_Settled ==
    last'.op = "webhook"
        => /\ UNCHANGED <<cachedState, isInitializing, isRestarting, timers, req>>
           /\ hooks' = [hooks EXCEPT ![last'.arg] = @ - 1]

\* C10: the handlers' updates do not depend on the post; a settled post is not issued again.
C10_FireAndForget ==
    /\ [](~webhookUrl => HooksTotal = 0)
    /\ [][C10_Handler]_vars
    /\ [][C10_Settled]_vars

\* The post of a disconnected event failed: nothing is in flight, the cache stands.
C10_Witness ==
    /\ last = Step("webhook", "disconnected", "failed")
    /\ HooksTotal = 0
    /\ cachedState = "DISCONNECTED"
    /\ ~isInitializing

----------------------------------------------------------------------------
(* C11: lifecycle events set the cache deterministically.                   *)
(* Whatever the cache held before, the handler of ready leaves CONNECTED,   *)
(* those of disconnected and auth_failure leave DISCONNECTED, that of qr    *)
(* leaves INITIALIZING; the handler of authenticated leaves the cache as it *)
(* was; and no lifecycle handler changes isRestarting.                      *)

C11_Step ==
    /\ last'.arg = "ready" => cachedState' = "CONNECTED"
    /\ last'.arg \in {"disconnected", "auth_failure"} => cachedState' = "DISCONNECTED"
    /\ last'.arg = "qr" => cachedState' = "INITIALIZING"
    /\ last'.arg = "authenticated" => cachedState' = cachedState
    /\ isRestarting' = isRestarting

\* C11: each lifecycle event fixes the cache whatever it held, authenticated keeps it, none touches isRestarting.
C11_EventCache == [][last'.op = "event" => C11_Step]_vars

\* A ready event handled while a restart is in progress: the cache is
\* CONNECTED and the restart flag is still set.
C11_Witness ==
    /\ last = Step("event", "ready", "-")
    /\ cachedState = "CONNECTED"
    /\ isRestarting
    /\ PendingTeardowns = 1

----------------------------------------------------------------------------
(* C12: every lifecycle handler clears isInitializing, the qr handler       *)
(* included; so a safeInitialize call that follows a qr event finds the     *)
(* flag clear, is not skipped and invokes client.initialize() again.        *)

\* A safeInitialize call that is not skipped: initialize was invoked, and
\* unless it raised the flag is set for this one invocation.
C12_Invokes ==
    /\ last'.log \in {"invoked", "threw"}
    /\ last'.log = "invoked" => (isInitializing' /\ initsInFlight' = 1)
    /\ last'.log = "threw" => ~isInitializing'

C12_Step ==
    /\ last'.op = "event" => ~isInitializing'
    /\ (last'.op \in {"startup", "timer"} /\ ~isInitializing) => C12_Invokes
    /\ (last'.op = "timer" /\ last'.after # "-") => C12_Invokes

\* C12: ready, authenticated, auth_failure, disconnected and qr all clear isInitializing, and the next safeInitialize invokes initialize.
C12_FlagCleared == [][C12_Step]_vars

\* The timer of a restart fired right after a qr event was handled, and
\* safeInitialize invoked initialize anew.
C12_Witness ==
    /\ last.op = "timer"
    /\ last.arg = "restart"
    /\ last.after = "qr"
    /\ last.log = "invoked"
    /\ isInitializing
    /\ initsInFlight = 1

----------------------------------------------------------------------------
(* C13: when an initialize attempt started by safeInitialize fails, the     *)
(* flag is cleared, so that a later safeInitialize call is not skipped.     *)
(* The try/catch of server.js:45-50 sees only an error raised by the call   *)
(* itself; the promise the call returns is dropped, so an attempt that      *)
(* fails later leaves the flag set until a lifecycle event arrives.         *)

\* The slice the loop ran last saw an initialize attempt fail.
C13_Failed ==
    \/ last.op \in {"startup", "timer"} /\ last.log = "threw"
    \/ last.op = "initialize" /\ last.log = "rejected"

\* C13: after an initialize attempt has failed isInitializing is false.
C13_AsClaimed == C13_Failed => ~isInitializing

----------------------------------------------------------------------------
(* C14: isRestarting always returns to false.  Given that every awaited     *)
(* logout or destroy call returns or raises and that scheduled timers fire, *)
(* every state with the flag set is followed by one with the flag clear,    *)
(* whichever way the teardown went.                                         *)

\* C14: under fair teardown calls and timers, isRestarting set leads to isRestarting clear.
C14_FlagReturns == isRestarting ~> ~isRestarting

\* The logout failed, the fallback destroy succeeded, its timer fired: the
\* flag is clear again and nothing of the teardown is left.
C14_Witness ==
    /\ last.op = "timer"
    /\ last.arg = "logout_destroy"
    /\ ~isRestarting
    /\ TimersTotal = 0
    /\ PendingTeardowns = 0

----------------------------------------------------------------------------
(* C15: a fresh initialize never races a teardown call.  initialize is not  *)
(* invoked while a logout or destroy call of the logout and restart         *)
(* handlers is pending; a timer for the deferred safeInitialize is set only *)
(* by the slice in which the teardown call resolved; and isRestarting stays *)
(* set until the timer's slice, which runs safeInitialize before it clears  *)
(* the flag (the catch clauses that give up schedule no safeInitialize).    *)

\* This step resolved a teardown call and answered its request.
C15_TeardownResolved ==
    \E q \in BagToSet(req) :
        /\ q.pc \in {"awaitLogout", "awaitDestroy"}
        /\ Moved(q, last'.req)
        /\ last'.log = "resolved"
        /\ last'.req.pc = "done"

C15_Step ==
    /\ (last'.op \in {"startup", "timer"})
         => (PendingTeardowns = 0 /\ PendingTeardowns' = 0)
    /\ (\E x \in Reasons : timers'[x] > timers[x]) => C15_TeardownResolved
    /\ TimersTotal > 0 => isRestarting
    /\ (isRestarting /\ ~isRestarting')
         => \/ last'.op = "timer" /\ last'.log \in {"invoked", "threw", "skipped"}
            \/ last'.op = "http" /\ last'.log = "rejected" /\ TimersTotal' = 0

\* C15: no safeInitialize while a teardown call is pending, timers only after the teardown resolved, isRestarting cleared only by the timer's slice.
C15_NoRace == [][C15_Step]_vars

\* The timer of a logout fired after the logout call had resolved:
\* initialize was invoked with no teardown pending, then the flag cleared.
C15_Witness ==
    /\ last.op = "timer"
    /\ last.arg = "logout"
    /\ last.log = "invoked"
    /\ PendingTeardowns = 0
    /\ isInitializing
    /\ ~isRestarting

----------------------------------------------------------------------------
(* C16: a live query that yields nothing keeps the cache.  When getState    *)
(* resolves to undefined or to an empty string, in the send handler or in   *)
(* the status handler, the cache keeps the value it had; in no reachable    *)
(* state does the cache hold undefined or an empty value.                   *)

C16_CacheValues == {"INITIALIZING", "CONNECTED", "DISCONNECTED"}

\* The resumption of a handler whose getState call resolved to nothing
C16_EmptyResult(q, p) ==
    /\ q.pc = "awaitGetState"
    /\ Moved(q, p)
    /\ last'.log = "resolved"
    /\ p.state \in {"undefined", ""}

C16_Step ==
    /\ cachedState \in C16_CacheValues
    /\ cachedState' \in C16_CacheValues
    /\ \A q \in BagToSet(req) :
          C16_EmptyResult(q, last'.req) => cachedState' = cachedState

\* C16: an undefined or empty getState result leaves the cache as it was, and the cache is never undefined or empty.
C16_CacheRetained == [][C16_Step]_vars

\* A status query resolved to an empty string while the cache held
\* CONNECTED: the answer carries the empty state, the cache is kept.
C16_Witness ==
    /\ last.op = "http" /\ last.arg = "status" /\ last.log = "resolved"
    /\ last.req.state = ""
    /\ last.req.res.state = ""
    /\ cachedState = "CONNECTED"

----------------------------------------------------------------------------
(* C17: every accepted logout or restart whose teardown succeeded leads to  *)
(* an initialize invocation when its timer fires, whatever isInitializing   *)
(* is then.  The timer callbacks go through safeInitialize, which returns   *)
(* at server.js:38-41 when the flag is set: the callback then clears        *)
(* isRestarting without any initialize invoked.                             *)

\* C17: the slice of a fired logout or restart timer has invoked client.initialize().
C17_AsClaimed == last.op = "timer" => last.log \in {"invoked", "threw"}

----------------------------------------------------------------------------
(* C18: the collaborator's logout or destroy is never invoked while         *)
(* isInitializing is true.  The handlers test isRestarting only             *)
(* (server.js:191, 224): a request arriving during an initialize attempt    *)
(* goes on to client.logout() or client.destroy().                          *)

\* C18: a slice that ended by calling client.logout() or client.destroy() ran with isInitializing false.
C18_AsClaimed ==
    (last.op = "http" /\ last.req.pc \in {"awaitLogout", "awaitDestroy"})
        => ~isInitializing

----------------------------------------------------------------------------
(* C19: while isRestarting is true no send request reaches                  *)
(* client.sendMessage(): a send arriving between the acceptance of a logout *)
(* or restart and the deferred re-initialization is answered 503.  The send *)
(* handler decides on the cache and the live state only (server.js:149-160) *)
(* and never reads isRestarting.                                            *)

\* C19: with isRestarting set, no slice of a send request ends by calling client.sendMessage().
C19_AsClaimed ==
    (isRestarting /\ last.op = "http" /\ last.arg = "send")
        => last.req.pc # "awaitSend"

----------------------------------------------------------------------------
(* C20: a live query never overwrites a newer lifecycle update with an      *)
(* older result.  When a disconnected or auth_failure event is handled      *)
(* while a send or status handler awaits getState, the handler's resumption *)
(* does not set the cache back to CONNECTED.  The handlers write whatever   *)
(* the query gave when they resume (server.js:152, 181), with nothing that  *)
(* tells a result older than the event from a newer one.                    *)

\* Request q awaited getState while the event loop handled a disconnected or
\* auth_failure event, and resumes next with the query's result.
C20_Overtaken(q) ==
    /\ last.op = "event"
    /\ last.arg \in {"disconnected", "auth_failure"}
    /\ q.pc = "awaitGetState"
    /\ Moved(q, last'.req)
    /\ last'.log = "resolved"

\* C20: the resumption of a getState await that a disconnected or auth_failure event overtook does not leave the cache CONNECTED.
C20_AsClaimed ==
    [][\A q \in BagToSet(req) : C20_Overtaken(q) => cachedState' # "CONNECTED"]_vars

====
